---- MODULE Spec2Model ----
(***************************************************************************)
(* Conway's Game of Life as implemented in src/main.py.                    *)
(*                                                                         *)
(* A Python game state is a list of columns, each column a list of cells:  *)
(* state[x][y].  Lists are objects, so the model keeps a heap of columns   *)
(* (a sequence; the address of a column is its position) and a game state  *)
(* is the sequence of the addresses of its columns.  Python indices are    *)
(* 0-based and a negative index counts from the end of the list.           *)
(***************************************************************************)
EXTENDS Integers, Sequences, FiniteSets, TLC

VARIABLES
    heap,        \* the column objects that are alive
    init_state,  \* the state an operation is given (addresses of its columns)
    next_state,  \* the state an operation produced / run_forever's next_state
    pc,          \* where the program is
    prev,        \* history: the value of the state the last step was given
    rendered,    \* history: the values of the first states passed to render, in order
    steps,       \* history: how many times next_board_state was called (while counted)
    output,      \* what the last render printed: a sequence of lines of glyphs
    exc,         \* the exception that ended the last call, "none" if it returned
    expect_in,   \* history: the value a caller expects its input state to hold
    expect_out,  \* history: the value a caller expects the returned state to hold
    todo,        \* cells of the step in progress no worker has taken yet
    wk,          \* per worker: the cell it computed and has not written yet
    order,       \* history: the cells of the step in progress, in the order written
    file,        \* the text file given to load_board_state: its raw lines
    dims         \* the <<width, height>> given to dead_state

vars == <<heap, init_state, next_state, pc, prev, rendered, steps, output, exc,
          expect_in, expect_out, todo, wk, order, file, dims>>

----------------------------------------------------------------------------
(* Bounds of the model *)

\* the boards run_forever is started with have at most MaxCells cells
MaxCells == 9
\* the generations whose history is kept: the first MaxGen + 1 renders and
\* steps are recorded, the loop itself goes on
MaxGen == 2
\* the boards on which the loop is followed for ever
RunMaxCells == 6
\* the boards a single call of next_board_state is followed on
CallMaxCells == 6
\* the boards whose step is taken cell by cell, and the workers taking it
ParMaxCells == 4
NumWorkers == 2
\* the files given to load_board_state: their lines and the length of a line
MaxLines == 2
MaxLineLen == 2
\* the widths and heights given to dead_state lie in -MaxDim .. MaxDim
MaxDim == 2

----------------------------------------------------------------------------
(* Cells and Python lists *)

DEAD == 0
LIVE == 1

NoState == <<>>
NoOutput == <<>>

\* range(n): the empty range when n <= 0
range(n) == 0 .. (n - 1)

\* l[i] is defined for -len(l) <= i < len(l); anything else raises IndexError
PyInRange(l, i) == i >= -Len(l) /\ i < Len(l)

\* the position in the sequence that Python index i of list l names
PyPos(l, i) == IF i < 0 THEN Len(l) + i + 1 ELSE i + 1

PyGet(l, i) == l[PyPos(l, i)]

PySet(l, i, v) == [l EXCEPT ![PyPos(l, i)] = v]

\* state[x][y], through the heap
Cell(h, state, x, y) == PyGet(h[PyGet(state, x)], y)

\* state[x][y] = v, through the heap
Store(h, state, x, y, v) ==
    [h EXCEPT ![PyGet(state, x)] = PySet(h[PyGet(state, x)], y, v)]

\* the value of a state: its columns' contents
Deref(h, state) == [i \in 1 .. Len(state) |-> h[state[i]]]

\* The columns reachable from the given states, in address order.
Reachable(roots) == UNION {{roots[r][i] : i \in 1 .. Len(roots[r])} : r \in 1 .. Len(roots)}

Rank(a, R) == Cardinality({b \in R : b <= a})

\* What the garbage collector leaves: the reachable columns, renumbered.
Collect(h, roots) ==
    LET R == Reachable(roots)
    IN  [heap |-> [k \in 1 .. Cardinality(R) |-> h[CHOOSE a \in R : Rank(a, R) = k]],
         refs |-> [r \in 1 .. Len(roots) |->
                     [i \in 1 .. Len(roots[r]) |-> Rank(roots[r][i], R)]]]

----------------------------------------------------------------------------
(* dead_state, state_width, state_height *)

\* [DEAD for _ in range(height)]
NewColumn(height) == [y \in 1 .. Cardinality(range(height)) |-> DEAD]

\* a bug: one cell too many per column
dead_state_tall(h, width, height) ==
    [heap |-> h \o [x \in 1 .. Cardinality(range(width)) |-> NewColumn(height + 1)],
     ref  |-> [x \in 1 .. Cardinality(range(width)) |-> Len(h) + x]]

\* every column is a list of its own
dead_state(h, width, height) ==
    [heap |-> h \o [x \in 1 .. Cardinality(range(width)) |-> NewColumn(height)],
     ref  |-> [x \in 1 .. Cardinality(range(width)) |-> Len(h) + x]]

state_width(state) == Len(state)

\* len(state[0])
state_height(h, state) == Len(h[PyGet(state, 0)])

----------------------------------------------------------------------------
(* next_cell_value *)

\* a bug: no lower bound check, so index -1 is read
ScanCoordsNoLower(x, y, width, height) ==
    {c \in ((x - 1) .. (x + 1)) \X ((y - 1) .. (y + 1)) :
        /\ ~(c[1] >= width)
        /\ ~(c[2] >= height)
        /\ ~(c[1] = x /\ c[2] = y)}

\* the coordinates whose cell the neighbour scan reads (those reaching line 91)
ScanCoords(x, y, width, height) ==
    {c \in ((x - 1) .. (x + 1)) \X ((y - 1) .. (y + 1)) :
        /\ ~(c[1] < 0 \/ c[1] >= width)
        /\ ~(c[2] < 0 \/ c[2] >= height)
        /\ ~(c[1] = x /\ c[2] = y)}

n_live_neighbors(cell_coords, state, h) ==
    Cardinality({c \in ScanCoords(cell_coords[1], cell_coords[2],
                                  state_width(state), state_height(h, state)) :
                    Cell(h, state, c[1], c[2]) = LIVE})

\* a bug: a live cell needs 3 neighbours to survive
cell_rule_strict(cell, n) ==
    IF cell = LIVE
    THEN IF n <= 2 THEN DEAD ELSE IF n <= 3 THEN LIVE ELSE DEAD
    ELSE IF n = 3 THEN LIVE ELSE DEAD

\* a bug: a live cell survives 4 neighbours
cell_rule_crowded(cell, n) ==
    IF cell = LIVE
    THEN IF n <= 1 THEN DEAD ELSE IF n <= 4 THEN LIVE ELSE DEAD
    ELSE IF n = 3 THEN LIVE ELSE DEAD

cell_rule(cell, n) ==
    IF cell = LIVE
    THEN IF n <= 1 THEN DEAD ELSE IF n <= 3 THEN LIVE ELSE DEAD
    ELSE IF n = 3 THEN LIVE ELSE DEAD

next_cell_value(cell_coords, state, h) ==
    cell_rule(Cell(h, state, cell_coords[1], cell_coords[2]),
              n_live_neighbors(cell_coords, state, h))

----------------------------------------------------------------------------
(* next_board_state *)

\* a bug: the step works in place
AllocInPlace(h, state) == [heap |-> h, ref |-> state]

\* width, height and the fresh next_state
AllocNext(h, state) == dead_state(h, state_width(state), state_height(h, state))

\* next_state[x][y] = next_cell_value((x, y), init_state)
WriteCell(h, state, nxt, x, y) ==
    Store(h, nxt, x, y, next_cell_value(<<x, y>>, state, h))

\* the loops, x outer and y inner, from the k-th cell on (the heap after the
\* write is bound to v, so that it is computed once)
RECURSIVE FillFrom(_, _, _, _, _, _)
FillFrom(h, state, nxt, width, height, k) ==
    IF k >= width * height
    THEN h
    ELSE CHOOSE r \in {FillFrom(v, state, nxt, width, height, k + 1) :
                          v \in {WriteCell(h, state, nxt, k \div height, k % height)}} : TRUE

next_board_state(h, state) ==
    LET width  == state_width(state)
        height == state_height(h, state)
        a      == AllocNext(h, state)
    IN  [heap |-> FillFrom(a.heap, state, a.ref, width, height, 0), ref |-> a.ref]

----------------------------------------------------------------------------
(* render *)

Glyphs == {DEAD, LIVE}

\* display_as: a space for DEAD, a filled square for LIVE
display_as(v) == IF v = DEAD THEN " " ELSE "#"

\* the line of row y: every cell's glyph twice, x running over the width
render_line(h, state, y) ==
    [k \in 1 .. 2 * state_width(state) |-> display_as(Cell(h, state, (k - 1) \div 2, y))]

\* display_as[state[x][y]] raises KeyError for a cell that is neither DEAD nor LIVE
render(h, state) ==
    IF \E x \in range(state_width(state)), y \in range(state_height(h, state)) :
           Cell(h, state, x, y) \notin Glyphs
    THEN [exc |-> "KeyError", out |-> NoOutput]
    ELSE [exc |-> "none",
          out |-> [r \in 1 .. state_height(h, state) |-> render_line(h, state, r - 1)]]

----------------------------------------------------------------------------
(* random_state and the states run_forever is started with *)

\* every width x height state can be drawn
random_state(width, height) == [1 .. width -> [1 .. height -> {DEAD, LIVE}]]

\* the blinker on a 5 x 5 board: (1,2), (2,2), (3,2) live
BlinkerH == [i \in 1 .. 5 |-> [j \in 1 .. 5 |->
                IF j - 1 = 2 /\ i - 1 \in 1 .. 3 THEN LIVE ELSE DEAD]]

\* (2,1), (2,2), (2,3) live
BlinkerV == [i \in 1 .. 5 |-> [j \in 1 .. 5 |->
                IF i - 1 = 2 /\ j - 1 \in 1 .. 3 THEN LIVE ELSE DEAD]]

\* the dimensions of the boards of at most n cells
Shapes(n) == {d \in (1 .. n) \X (1 .. n) : d[1] * d[2] <= n}

StartStates ==
    UNION {random_state(d[1], d[2]) : d \in Shapes(MaxCells)} \cup {BlinkerH}

\* a state value laid out in a heap of its own
Addresses(G) == [i \in 1 .. Len(G) |-> i]

----------------------------------------------------------------------------
(* run_forever *)

Idle == [w \in {} |-> 0]

Init ==
    \E G \in StartStates :
        /\ heap = G
        /\ init_state = Addresses(G)
        /\ next_state = Addresses(G)      \* next_state = init_state
        /\ pc = "render"
        /\ prev = NoState
        /\ rendered = <<>>
        /\ steps = 0
        /\ output = NoOutput
        /\ exc = "none"
        /\ expect_in = NoState
        /\ expect_out = NoState
        /\ todo = {}
        /\ wk = Idle
        /\ order = <<>>
        /\ file = <<>>
        /\ dims = <<0, 0>>

\* render(next_state)
Render ==
    /\ pc = "render"
    /\ LET r == render(heap, next_state)
       IN  /\ output' = r.out
           /\ exc' = r.exc
           /\ pc' = IF r.exc = "none" THEN "advance" ELSE "crashed"
    /\ rendered' = IF Len(rendered) <= MaxGen
                    THEN Append(rendered, Deref(heap, next_state))
                    ELSE rendered
    /\ UNCHANGED <<heap, init_state, next_state, prev, steps,
                   expect_in, expect_out, todo, wk, order, file, dims>>

\* a bug: every step starts again from init_state
AdvanceStale ==
    /\ pc = "advance"
    /\ \E r \in {next_board_state(heap, init_state)} :
           \E c \in {Collect(r.heap, <<init_state, r.ref>>)} :
               /\ heap' = c.heap
               /\ init_state' = c.refs[1]
               /\ next_state' = c.refs[2]
    /\ prev' = Deref(heap, next_state)
    /\ steps' = IF steps <= MaxGen THEN steps + 1 ELSE steps
    /\ pc' = "sleep"
    /\ UNCHANGED <<rendered, output, exc, expect_in, expect_out, todo, wk, order, file, dims>>

\* next_state = next_board_state(next_state); the state it replaces is garbage,
\* init_state stays referenced by the caller
Advance ==
    /\ pc = "advance"
    /\ \E r \in {next_board_state(heap, next_state)} :
           \E c \in {Collect(r.heap, <<init_state, r.ref>>)} :
               /\ heap' = c.heap
               /\ init_state' = c.refs[1]
               /\ next_state' = c.refs[2]
    /\ prev' = Deref(heap, next_state)
    /\ steps' = IF steps <= MaxGen THEN steps + 1 ELSE steps
    /\ pc' = "sleep"
    /\ UNCHANGED <<rendered, output, exc, expect_in, expect_out, todo, wk, order, file, dims>>

\* time.sleep(0.03), then the loop starts over
Sleep ==
    /\ pc = "sleep"
    /\ pc' = "render"
    /\ UNCHANGED <<heap, init_state, next_state, prev, rendered, steps, output, exc,
                   expect_in, expect_out, todo, wk, order, file, dims>>

Next == Render \/ Advance \/ Sleep

Spec == Init /\ [][Next]_vars

----------------------------------------------------------------------------
(* A caller that keeps both the state it passed and the state it got back, *)
(* and later writes a cell of one of them (state[x][y] = v).               *)

CallStates == UNION {random_state(d[1], d[2]) : d \in Shapes(CallMaxCells)}

\* G with cell (x, y) replaced, as a value
SetAt(G, x, y, v) == [G EXCEPT ![x + 1][y + 1] = v]

InitCall ==
    \E G \in CallStates :
        /\ heap = G
        /\ init_state = Addresses(G)
        /\ next_state = NoState
        /\ pc = "main"
        /\ expect_in = G
        /\ expect_out = NoState
        /\ prev = NoState /\ rendered = <<>> /\ steps = 0 /\ output = NoOutput
        /\ exc = "none" /\ todo = {} /\ wk = Idle /\ order = <<>>
        /\ file = <<>> /\ dims = <<0, 0>>

\* result = next_board_state(init_state)
CallStep ==
    /\ pc = "main"
    /\ LET r == next_board_state(heap, init_state)
       IN  /\ heap' = r.heap
           /\ next_state' = r.ref
           /\ expect_out' = Deref(r.heap, r.ref)
    /\ steps' = steps + 1
    /\ pc' = "returned"
    /\ UNCHANGED <<init_state, prev, rendered, output, exc, expect_in,
                   todo, wk, order, file, dims>>

\* result[x][y] = v
WriteResult ==
    /\ pc = "returned"
    /\ \E x \in range(state_width(next_state)),
          y \in range(state_height(heap, next_state)), v \in {DEAD, LIVE} :
           /\ heap' = Store(heap, next_state, x, y, v)
           /\ expect_out' = SetAt(expect_out, x, y, v)
           /\ order' = <<<<"result", x, y>>>>
    /\ pc' = "wrote"
    /\ UNCHANGED <<init_state, next_state, prev, rendered, steps, output, exc,
                   expect_in, todo, wk, file, dims>>

\* init_state[x][y] = v
WriteInput ==
    /\ pc = "returned"
    /\ \E x \in range(state_width(init_state)),
          y \in range(state_height(heap, init_state)), v \in {DEAD, LIVE} :
           /\ heap' = Store(heap, init_state, x, y, v)
           /\ expect_in' = SetAt(expect_in, x, y, v)
           /\ order' = <<<<"input", x, y>>>>
    /\ pc' = "wrote"
    /\ UNCHANGED <<init_state, next_state, prev, rendered, steps, output, exc,
                   expect_out, todo, wk, file, dims>>

NextCall == CallStep \/ WriteResult \/ WriteInput

SpecCall == InitCall /\ [][NextCall]_vars

----------------------------------------------------------------------------
(* The step taken cell by cell, in any order, by several workers: each     *)
(* worker takes a cell nobody took, computes its next value from           *)
(* init_state, and writes it to next_state later.                          *)

ParStates == UNION {random_state(d[1], d[2]) : d \in Shapes(ParMaxCells)}

Workers == 1 .. NumWorkers

NoCell == <<>>

InitPar ==
    \E G \in ParStates :
        /\ heap = G
        /\ init_state = Addresses(G)
        /\ next_state = NoState
        /\ pc = "main"
        /\ expect_in = G
        /\ expect_out = NoState
        /\ prev = NoState /\ rendered = <<>> /\ steps = 0 /\ output = NoOutput
        /\ exc = "none" /\ todo = {} /\ wk = [w \in Workers |-> NoCell] /\ order = <<>>
        /\ file = <<>> /\ dims = <<0, 0>>

\* width, height, next_state = dead_state(width, height)
StartStep ==
    /\ pc = "main"
    /\ LET a == AllocNext(heap, init_state)
       IN  /\ heap' = a.heap
           /\ next_state' = a.ref
    /\ todo' = range(state_width(init_state)) \X range(state_height(heap, init_state))
    /\ pc' = "filling"
    /\ UNCHANGED <<init_state, prev, rendered, steps, output, exc, expect_in,
                   expect_out, wk, order, file, dims>>

\* a bug: the next value is computed from the state being written
ComputeFromNext(w) ==
    /\ pc = "filling"
    /\ wk[w] = NoCell
    /\ \E c \in todo :
           /\ wk' = [wk EXCEPT ![w] = <<c, next_cell_value(c, next_state, heap)>>]
           /\ todo' = todo \ {c}
    /\ UNCHANGED <<heap, init_state, next_state, pc, prev, rendered, steps, output,
                   exc, expect_in, expect_out, order, file, dims>>

\* a worker evaluates next_cell_value((x, y), init_state) for a cell not taken yet
Compute(w) ==
    /\ pc = "filling"
    /\ wk[w] = NoCell
    /\ \E c \in todo :
           /\ wk' = [wk EXCEPT ![w] = <<c, next_cell_value(c, init_state, heap)>>]
           /\ todo' = todo \ {c}
    /\ UNCHANGED <<heap, init_state, next_state, pc, prev, rendered, steps, output,
                   exc, expect_in, expect_out, order, file, dims>>

\* the worker assigns next_state[x][y]
Write(w) ==
    /\ pc = "filling"
    /\ wk[w] # NoCell
    /\ heap' = Store(heap, next_state, wk[w][1][1], wk[w][1][2], wk[w][2])
    /\ wk' = [wk EXCEPT ![w] = NoCell]
    /\ order' = Append(order, wk[w][1])
    /\ UNCHANGED <<init_state, next_state, pc, prev, rendered, steps, output,
                   exc, expect_in, expect_out, todo, file, dims>>

\* return next_state, once every cell is written
FinishStep ==
    /\ pc = "filling"
    /\ todo = {}
    /\ \A w \in Workers : wk[w] = NoCell
    /\ pc' = "returned"
    /\ steps' = steps + 1
    /\ UNCHANGED <<heap, init_state, next_state, prev, rendered, output,
                   exc, expect_in, expect_out, todo, wk, order, file, dims>>

NextPar == StartStep \/ (\E w \in Workers : Compute(w) \/ Write(w)) \/ FinishStep

SpecAnyOrder == InitPar /\ [][NextPar]_vars

----------------------------------------------------------------------------
(* load_board_state *)

Whitespace == {" ", "\n"}

\* str.rstrip(): the line without its trailing whitespace
RECURSIVE rstrip(_)
rstrip(l) ==
    IF Len(l) > 0 /\ l[Len(l)] \in Whitespace THEN rstrip(SubSeq(l, 1, Len(l) - 1)) ELSE l

DigitChars == <<"0", "1", "2", "3", "4", "5", "6", "7", "8", "9">>

\* int(char) raises ValueError unless char is a digit
IsDigit(ch) == \E d \in 1 .. Len(DigitChars) : DigitChars[d] = ch

int(ch) == (CHOOSE d \in 1 .. Len(DigitChars) : DigitChars[d] = ch) - 1

\* the two loops: line x from character y on, then the lines after it
RECURSIVE LoadFrom(_, _, _, _, _)
LoadFrom(h, board, lines, x, y) ==
    IF x >= Len(lines)
    THEN [exc |-> "none", heap |-> h, ref |-> board]
    ELSE IF y >= Len(lines[x + 1])
    THEN LoadFrom(h, board, lines, x + 1, 0)
    ELSE IF ~IsDigit(lines[x + 1][y + 1])
    THEN [exc |-> "ValueError", heap |-> h, ref |-> NoState]
    ELSE IF ~PyInRange(board, x) \/ ~PyInRange(h[PyGet(board, x)], y)
    THEN [exc |-> "IndexError", heap |-> h, ref |-> NoState]
    ELSE LoadFrom(Store(h, board, x, y, int(lines[x + 1][y + 1])), board, lines, x, y + 1)

\* lines[0] raises IndexError when the file has no line; the board is made by
\* dead_state(height, width)
load_board_state(h, f) ==
    LET lines == [i \in 1 .. Len(f) |-> rstrip(f[i])]
    IN  IF Len(lines) = 0
        THEN [exc |-> "IndexError", heap |-> h, ref |-> NoState]
        ELSE LET height == Len(lines)
                 width  == Len(lines[1])
                 a      == dead_state(h, height, width)
             IN  LoadFrom(a.heap, a.ref, lines, 0, 0)

----------------------------------------------------------------------------
(* The constructors and the renderer called on their own: dead_state with  *)
(* any dimensions, load_board_state with any file, render of what loaded.  *)

FileChars == {"0", "1", "2", "a"}

SeqsUpTo(S, n) == UNION {[1 .. k -> S] : k \in 0 .. n}

\* the lines f.readlines() gives: each ends with its newline
RawLines == {l \o <<"\n">> : l \in SeqsUpTo(FileChars, MaxLineLen)}

Files == SeqsUpTo(RawLines, MaxLines)

DimArgs == (-MaxDim) .. MaxDim

InitIO ==
    /\ heap = <<>>
    /\ init_state = NoState
    /\ next_state = NoState
    /\ pc = "main"
    /\ expect_in = NoState /\ expect_out = NoState
    /\ prev = NoState /\ rendered = <<>> /\ steps = 0 /\ output = NoOutput
    /\ exc = "none" /\ todo = {} /\ wk = Idle /\ order = <<>>
    /\ file = <<>> /\ dims = <<0, 0>>

\* board = dead_state(width, height)
CallDeadState ==
    /\ pc = "main"
    /\ \E width \in DimArgs, height \in DimArgs :
           LET r == dead_state(heap, width, height)
           IN  /\ heap' = r.heap
               /\ next_state' = r.ref
               /\ dims' = <<width, height>>
    /\ pc' = "created"
    /\ UNCHANGED <<init_state, prev, rendered, steps, output, exc, expect_in,
                   expect_out, todo, wk, order, file>>

\* board = load_board_state(filepath)
CallLoad ==
    /\ pc = "main"
    /\ \E f \in Files :
           LET r == load_board_state(heap, f)
           IN  /\ file' = f
               /\ heap' = r.heap
               /\ next_state' = r.ref
               /\ exc' = r.exc
               /\ pc' = IF r.exc = "none" THEN "loaded" ELSE "load failed"
    /\ UNCHANGED <<init_state, prev, rendered, steps, output, expect_in,
                   expect_out, todo, wk, order, dims>>

\* render(board)
CallRender ==
    /\ pc = "loaded"
    /\ LET r == render(heap, next_state)
       IN  /\ output' = r.out
           /\ exc' = r.exc
           /\ pc' = IF r.exc = "none" THEN "rendered" ELSE "render failed"
    /\ UNCHANGED <<heap, init_state, next_state, prev, rendered, steps, expect_in,
                   expect_out, todo, wk, order, file, dims>>

NextIO == CallDeadState \/ CallLoad \/ CallRender

SpecIO == InitIO /\ [][NextIO]_vars

----------------------------------------------------------------------------
(* Properties of the run_forever loop and of the step it takes *)

\* the state run_forever was given, the state it holds now
InitValue == Deref(heap, init_state)
CurValue == Deref(heap, next_state)

Coords(G) == range(Len(G)) \X range(Len(G[1]))

At(G, c) == G[c[1] + 1][c[2] + 1]

\* the live cells among the neighbours of c that lie on the board
LiveInBounds(G, c) ==
    Cardinality({d \in Coords(G) :
                    /\ d # c
                    /\ d[1] - c[1] \in -1 .. 1
                    /\ d[2] - c[2] \in -1 .. 1
                    /\ At(G, d) = LIVE})

AllDead(G) == \A c \in Coords(G) : At(G, c) = DEAD

\* the result of one step as a value
StepValue(G) ==
    LET r == next_board_state(G, Addresses(G)) IN Deref(r.heap, r.ref)

RECURSIVE Iterate(_, _)
Iterate(G, n) == IF n = 0 THEN G ELSE StepValue(Iterate(G, n - 1))

\* C1: after a step every cell holds what B3/S23 gives for the cell's old state
\* and its old count n of live in-bounds neighbours: a live cell lives on for
\* n in {2, 3} and dies for n in {0, 1, 4, 5, 6, 7, 8}; a dead cell comes alive
\* for n = 3 and stays dead for n in {0, 1, 2, 4, 5, 6, 7, 8}.
C1_RuleIsB3S23 ==
    steps > 0 =>
        \A c \in Coords(prev) :
            LET n == LiveInBounds(prev, c)
            IN  /\ n \in 0 .. 8
                /\ (At(prev, c) = LIVE /\ n \in {2, 3}) => At(CurValue, c) = LIVE
                /\ (At(prev, c) = LIVE /\ n \in {0, 1, 4, 5, 6, 7, 8}) => At(CurValue, c) = DEAD
                /\ (At(prev, c) = DEAD /\ n = 3) => At(CurValue, c) = LIVE
                /\ (At(prev, c) = DEAD /\ n \in {0, 1, 2, 4, 5, 6, 7, 8}) => At(CurValue, c) = DEAD

\* a step has been taken on a board with a dead cell that is born (n = 3), a
\* live cell that dies of overpopulation (n = 4) and a live cell that survives
C1_Witness ==
    /\ steps > 0
    /\ \E c \in Coords(prev) :
           At(prev, c) = DEAD /\ LiveInBounds(prev, c) = 3 /\ At(CurValue, c) = LIVE
    /\ \E c \in Coords(prev) :
           At(prev, c) = LIVE /\ LiveInBounds(prev, c) = 4 /\ At(CurValue, c) = DEAD
    /\ \E c \in Coords(prev) :
           At(prev, c) = LIVE /\ LiveInBounds(prev, c) = 2 /\ At(CurValue, c) = LIVE

\* C4: the neighbour scan of the last step read only coordinates on the board
\* (never index -1, never the opposite edge), its count is the number of live
\* cells among the in-bounds neighbours, and on a board at least 2 x 2 the
\* corner (0, 0) counts at most 3.
C4_ScanClipped ==
    steps > 0 =>
        LET w == Len(prev)
            h == Len(prev[1])
        IN  /\ \A c \in Coords(prev) :
                   /\ ScanCoords(c[1], c[2], w, h) \subseteq Coords(prev)
                   /\ Cardinality(ScanCoords(c[1], c[2], w, h)) <= 8
                   /\ n_live_neighbors(c, Addresses(prev), prev) = LiveInBounds(prev, c)
            /\ (w >= 2 /\ h >= 2) =>
                   /\ Cardinality(ScanCoords(0, 0, w, h)) = 3
                   /\ n_live_neighbors(<<0, 0>>, Addresses(prev), prev) <= 3

\* a step was taken on a 3 x 3 board where a wrapping scan of (0, 0) would have
\* found three live cells on the opposite edges and the clipped scan finds none
C4_Witness ==
    /\ steps > 0
    /\ Len(prev) = 3 /\ Len(prev[1]) = 3
    /\ At(prev, <<2, 2>>) = LIVE /\ At(prev, <<2, 0>>) = LIVE /\ At(prev, <<0, 2>>) = LIVE
    /\ At(prev, <<0, 0>>) = DEAD
    /\ LiveInBounds(prev, <<0, 0>>) = 0
    /\ At(CurValue, <<0, 0>>) = DEAD

\* C5: whatever the number of steps, the current state has the width and the
\* height run_forever was started with, every column has that height, every
\* cell is DEAD or LIVE, and an all-dead state steps to an all-dead state.
C5_WellFormed ==
    /\ Len(CurValue) = Len(InitValue)
    /\ \A x \in 1 .. Len(CurValue) : Len(CurValue[x]) = Len(InitValue[1])
    /\ \A x \in 1 .. Len(CurValue) : \A y \in 1 .. Len(CurValue[x]) :
           CurValue[x][y] \in {DEAD, LIVE}
    /\ (steps > 0 /\ AllDead(prev)) => AllDead(CurValue)

\* two steps taken on a board that is not square, the second from an all-dead state
C5_Witness ==
    /\ steps >= 2
    /\ Len(InitValue) >= 2 /\ Len(InitValue[1]) >= 2
    /\ Len(InitValue) # Len(InitValue[1])
    /\ ~AllDead(InitValue)
    /\ AllDead(prev)
    /\ AllDead(CurValue)

\* C6: started with the horizontal blinker on the 5 x 5 board, the states
\* rendered are the horizontal and the vertical blinker in turn; one step takes
\* either to the other.
C6_BlinkerPeriod2 ==
    /\ InitValue = BlinkerH =>
           \A k \in 1 .. Len(rendered) :
               rendered[k] = IF k % 2 = 1 THEN BlinkerH ELSE BlinkerV
    /\ (steps > 0 /\ prev = BlinkerH) => CurValue = BlinkerV
    /\ (steps > 0 /\ prev = BlinkerV) => CurValue = BlinkerH

\* the blinker has been stepped twice and is horizontal again
C6_Witness ==
    /\ InitValue = BlinkerH
    /\ steps = 2
    /\ prev = BlinkerV
    /\ CurValue = BlinkerH
    /\ Len(rendered) = 3

\* The loop followed for ever, on the boards of at most RunMaxCells cells and
\* the blinker.  The loop goes on: the thread that runs it is never held back.
InitLive ==
    /\ Init
    /\ \/ Len(heap) * Len(heap[1]) <= RunMaxCells
       \/ heap = BlinkerH

Fairness == WF_vars(Next)

SpecLive == InitLive /\ [][Next]_vars /\ Fairness

\* what holds of the loop in every state
LoopInvariant ==
    /\ \A k \in 1 .. Len(rendered) : rendered[k] = Iterate(InitValue, k - 1)
    /\ pc \in {"render", "advance", "sleep"}
    /\ exc = "none"
    /\ steps <= MaxGen =>
           /\ pc = "render" => Len(rendered) = steps
           /\ pc = "advance" => Len(rendered) = steps + 1
           /\ pc = "sleep" => Len(rendered) = steps

\* C10: the k-th state rendered is the start state stepped k-1 times (the start
\* state itself comes first), every render is followed by exactly one step
\* before the next render, no call raises, and the loop never stops: it renders
\* again and again and steps again and again.
C10_RenderEveryGeneration ==
    /\ []LoopInvariant
    /\ []<>(pc = "render")
    /\ []<>(pc = "advance")
    /\ [][pc = "advance" => pc' = "sleep"]_vars
    /\ [][pc = "render" => pc' = "advance"]_vars

\* three renders of three different generations
C10_Witness ==
    /\ Len(rendered) = 3
    /\ steps = 2
    /\ rendered[1] # rendered[2]
    /\ rendered[2] # rendered[3]
    /\ rendered[1] # rendered[3]

----------------------------------------------------------------------------
(* Properties of one call of next_board_state *)

\* C2: once next_board_state has returned, the state it was given holds what
\* its caller expects (what it held before the call, then what the caller
\* itself wrote), the returned state holds what was returned and then written,
\* and the two states have no column in common.
C2_InputNotMutated ==
    pc # "main" =>
        /\ Deref(heap, init_state) = expect_in
        /\ Deref(heap, next_state) = expect_out
        /\ Reachable(<<init_state>>) \cap Reachable(<<next_state>>) = {}
        /\ pc = "returned" => expect_out = StepValue(expect_in)

\* the call changed the board, then the caller wrote a cell of the result that
\* changed it, and the input still holds what it held before the call
C2_Witness ==
    /\ pc = "wrote"
    /\ order[1][1] = "result"
    /\ Len(init_state) >= 2 /\ state_height(heap, init_state) >= 2
    /\ Deref(heap, next_state) # StepValue(Deref(heap, init_state))
    /\ StepValue(Deref(heap, init_state)) # Deref(heap, init_state)

\* the cells of the board in the order the loops of next_board_state take them
XMajor(width, height) == [k \in 1 .. width * height |-> <<(k - 1) \div height, (k - 1) % height>>]

\* C3: whatever the order in which the cells are computed and written, and
\* however the workers' computations and writes interleave, every value a worker
\* computed is the one the input state alone gives, the input state is not
\* changed, and the state returned is the one the sequential loop returns.
C3_OrderIndependent ==
    /\ pc # "main" => Deref(heap, init_state) = expect_in
    /\ \A w \in Workers :
           wk[w] # NoCell =>
               wk[w][2] = next_cell_value(wk[w][1], Addresses(expect_in), expect_in)
    /\ pc = "returned" => Deref(heap, next_state) = StepValue(expect_in)

\* a 2 x 2 step that changed the board, written last cell first
C3_Witness ==
    /\ pc = "returned"
    /\ Len(expect_in) = 2 /\ Len(expect_in[1]) = 2
    /\ order # XMajor(2, 2)
    /\ order[1] = <<1, 1>>
    /\ Deref(heap, next_state) # expect_in

----------------------------------------------------------------------------
(* Properties of dead_state, load_board_state and render *)

\* C7: dead_state given a width <= 0 or a height <= 0 ends in a failure and
\* returns no state.
C7_RejectsNonPositive ==
    (pc = "created" /\ (dims[1] <= 0 \/ dims[2] <= 0)) => exc # "none"

\* the text of the file: its lines without the line ends
Text(f) == [i \in 1 .. Len(f) |-> SubSeq(f[i], 1, Len(f[i]) - 1)]

\* a file is malformed when it is empty, a character is not '0' or '1', or its
\* lines differ in length
Malformed(f) ==
    \/ Len(f) = 0
    \/ \E i \in 1 .. Len(f) : \E j \in 1 .. Len(Text(f)[i]) : Text(f)[i][j] \notin {"0", "1"}
    \/ \E i \in 1 .. Len(f) : Len(Text(f)[i]) # Len(Text(f)[1])

Loaded == pc \in {"loaded", "rendered", "render failed"}

\* C8: load_board_state returns a state for no malformed file.
C8_MalformedRejected == Loaded => ~Malformed(file)

\* H lines of W characters, H and W at least 1
WellFormed(f) == ~Malformed(f) /\ Len(Text(f)[1]) > 0

\* C9: rendering what a well-formed file of H lines of W characters loaded as
\* prints H lines of W cells, and the cell at line r, position c is live
\* exactly when the character at line r, position c of the file is '1'.
C9_LoadRenderRoundTrip ==
    (pc = "rendered" /\ WellFormed(file)) =>
        /\ Len(output) = Len(file)
        /\ \A r \in 1 .. Len(output) :
               /\ Len(output[r]) = 2 * Len(Text(file)[1])
               /\ \A c \in 1 .. Len(Text(file)[r]) :
                      /\ output[r][2 * c - 1] = display_as(LIVE) <=> Text(file)[r][c] = "1"
                      /\ output[r][2 * c] = output[r][2 * c - 1]

====
